---- MODULE Spec2Model ----
(***************************************************************************)
(* Model of the SpringVerify face-match gateway.  src/ holds seven         *)
(* versions of the server, one per provider integration; the deployed      *)
(* version is the variable `adapter`, fixed when the process starts.       *)
(*                                                                         *)
(* One behaviour is one POST /api/face-match request.  `pc` names the      *)
(* await the handler is suspended on; each action is the code that runs    *)
(* from the resolution of that await to the next await or to the response. *)
(* Numbers that JavaScript holds as floats are integers in hundredths      *)
(* (92 is 9200, 0.15 is 15).                                               *)
(***************************************************************************)
EXTENDS Integers, Sequences, FiniteSets, TLC

VARIABLES adapter, configured, req, pc, compressed, calls, outcomes, raw,
          attempts, polled, nonTerminal, lastPoll, response, cmp, proc

\* adapter      the deployed server version (fixed at process start)
\* configured   the provider's credentials are set in the environment
\* req          which image fields and docType the request carries
\* pc           the await the handler is suspended on, "idle" before the
\*              request and "responded" after the response is sent
\* compressed   number of compressImage calls that have returned
\* calls        provider calls issued (polls excepted), in order
\* outcomes     their outcomes, in the same order
\* raw          the provider data the result is (or would be) built from
\* attempts     the poll loop's counter
\* polled       number of poll requests issued
\* nonTerminal  every poll that let the loop go on returned pending/in_progress
\* lastPoll     outcome and data of the latest poll
\* response     the HTTP response sent
\* cmp          one run of compressImage: its locals and the qualities used
\* proc         two requests in one process: the clock and their task ids
vars == <<adapter, configured, req, pc, compressed, calls, outcomes, raw,
          attempts, polled, nonTerminal, lastPoll, response, cmp, proc>>

\* the variables of the request handler
handlerVars == <<adapter, configured, req, pc, compressed, calls, outcomes, raw,
                 attempts, polled, nonTerminal, lastPoll, response>>

Adapters == {"springscan_v1", "springscan_v2", "springscan_ocr", "idfy_sync",
             "idfy_rest_v2", "idfy_async", "portkey"}

\* The versions whose handler demands a docType.
DocTypeAdapters == {"idfy_sync", "idfy_rest_v2", "idfy_async"}

\* The versions that call compressImage before the provider.
CompressingAdapters == {"springscan_ocr", "idfy_sync", "idfy_rest_v2", "idfy_async"}

\* The versions whose band comes from the provider's match_band label.
BandAdapters == {"idfy_rest_v2", "idfy_async"}

(***************************************************************************)
(* JavaScript values, as far as the handlers look at them.                 *)
(***************************************************************************)
Undef == [t |-> "undef", n |-> 0, s |-> ""]
NaN == [t |-> "nan", n |-> 0, s |-> ""]
Num(k) == [t |-> "num", n |-> k, s |-> ""]
Bool(b) == [t |-> "bool", n |-> IF b THEN 1 ELSE 0, s |-> ""]
Str(x) == [t |-> "str", n |-> 0, s |-> x]

Truthy(v) ==
  CASE v.t = "undef" -> FALSE
    [] v.t = "nan" -> FALSE
    [] v.t = "num" -> v.n # 0
    [] v.t = "bool" -> v.n = 1
    [] v.t = "str" -> v.s # ""

\* a || b
Or(a, b) == IF Truthy(a) THEN a ELSE b

\* v >= k for a percentage k, after JavaScript's conversion to a number.
GE(v, k) ==
  CASE v.t = "num" -> v.n >= k * 100
    [] v.t = "bool" -> v.n * 100 >= k * 100
    [] OTHER -> FALSE

\* v === true
IsTrue(v) == v.t = "bool" /\ v.n = 1

\* parseFloat on the strings the model sends
ParseFloat(v) ==
  CASE v.t = "num" -> v
    [] v.t = "str" /\ v.s = "91.0" -> Num(9100)
    [] v.t = "str" /\ v.s = "99.0" -> Num(9900)
    [] v.t = "str" /\ v.s = "72.5" -> Num(7250)
    [] v.t = "str" /\ v.s = "40" -> Num(4000)
    [] v.t = "str" /\ v.s = "0" -> Num(0)
    [] OTHER -> NaN

ToLowerCase(x) ==
  CASE x = "GREEN" -> "green"
    [] x = "Yellow" -> "yellow"
    [] OTHER -> x

ToUpperCase(x) ==
  CASE x = "green" -> "GREEN"
    [] x = "yellow" -> "YELLOW"
    [] x = "red" -> "RED"
    [] x = "gray" -> "GRAY"
    [] x = "blue" -> "BLUE"
    [] OTHER -> x

(***************************************************************************)
(* Provider calls: what comes back, and the error axios throws.            *)
(***************************************************************************)
\* maxAttempts of the poll loop
maxAttempts == 30

\* A response body as the catch blocks read it: shape "empty" is a falsy
\* body, "array" carries [0].error in `error`, "undefined" is no body at all.
Body(shape, error, message) == [shape |-> shape, error |-> error, message |-> message]
Undefined == Body("undefined", "", "")

ErrBodies == {Body("empty", "", ""), Body("object", "", ""),
              Body("object", "invalid credentials", ""),
              Body("object", "", "upstream failure"),
              Body("array", "task rejected", "")}

HttpErrors == {400, 404, 500}

OkOutcome == [kind |-> "ok", status |-> 200, body |-> Undefined]
HttpOutcomes == {[kind |-> "http", status |-> s, body |-> b] : s \in HttpErrors, b \in ErrBodies}
NetworkOutcome == [kind |-> "network", status |-> 0, body |-> Undefined]
FailOutcomes == HttpOutcomes \cup {NetworkOutcome}
NoOutcome == [kind |-> "none", status |-> 0, body |-> Undefined]

StatusText(s) ==
  CASE s = 400 -> "400"
    [] s = 404 -> "404"
    [] s = 500 -> "500"
    [] OTHER -> "0"

\* An Error object: message, and response (status, data) when axios got one.
PlainError(msg) == [message |-> msg, hasResponse |-> FALSE, status |-> 0, data |-> Undefined]

AxiosError(o) ==
  IF o.kind = "http"
    THEN [message |-> "Request failed with status code " \o StatusText(o.status),
          hasResponse |-> TRUE, status |-> o.status, data |-> o.body]
    ELSE PlainError("timeout of 60000ms exceeded")

\* The Portkey client is not axios: its errors carry no `response` property.
PortkeyError(o) ==
  IF o.kind = "http"
    THEN PlainError(StatusText(o.status) \o " status code (no body)")
    ELSE PlainError("Connection error.")

(***************************************************************************)
(* The canonical result and the HTTP response.                             *)
(***************************************************************************)
NoData == [match_score |-> 0, match_band |-> "", status |-> "", confidence_level |-> "",
           face_matched |-> Undef]

NoResponse == [status |-> 0, success |-> FALSE, error |-> "", detail |-> Undefined,
               data |-> NoData]

Success(result) == [status |-> 200, success |-> TRUE, error |-> "", detail |-> Undefined,
                    data |-> result]

BadRequest(msg) == [status |-> 400, success |-> FALSE, error |-> msg, detail |-> Undefined,
                    data |-> NoData]

MsgImagesRequired == "Both idImage and selfieImage are required"
MsgDocTypeRequired == "Document type is required. Please select a document type."
MsgTimeout == "Timeout waiting for IDfy task completion"
MsgPollNotFound == "Poll endpoint not found. IDfy might require webhook or different polling URL."

\* catch of the first SpringScan handler: always 500, no detail
HandlerCatchV1(err) ==
  [status |-> 500, success |-> FALSE,
   error |-> IF err.message # "" THEN err.message ELSE "Internal server error",
   detail |-> Undefined, data |-> NoData]

\* catch of every later handler: error.response?.status || 500, detail = response data
HandlerCatchStatus(err) ==
  [status |-> IF err.hasResponse /\ err.status # 0 THEN err.status ELSE 500,
   success |-> FALSE,
   error |-> IF err.message # "" THEN err.message ELSE "Internal server error",
   detail |-> IF err.hasResponse THEN err.data ELSE Undefined,
   data |-> NoData]

HandlerCatch(a, err) ==
  IF a = "springscan_v1" THEN HandlerCatchV1(err) ELSE HandlerCatchStatus(err)

\* catch inside callIdfyFaceMatch (REST v2 and v3 async): an error body with
\* error or message is re-thrown as a new Error, which has no response.
IdfyRewrap(err) ==
  IF err.hasResponse /\ err.data.shape \in {"object", "array"}
    THEN IF err.data.error # ""
           THEN PlainError("IDfy API Error: " \o err.data.error)
           ELSE IF err.data.shape = "object" /\ err.data.message # ""
                  THEN PlainError("IDfy API Error: " \o err.data.message)
                  ELSE err
    ELSE err

\* What the adapter's own catch does with an error before the handler sees it.
AdapterCatch(a, err) == IF a \in BandAdapters THEN IdfyRewrap(err) ELSE err

Fail(a, err) == HandlerCatch(a, AdapterCatch(a, err))

(***************************************************************************)
(* Raw provider data.  One record type for all providers; a field a        *)
(* provider does not send is Undef.  For idfy_sync the score and match     *)
(* fields are those of data.result, for springscan_ocr mr_confidence and   *)
(* mr_score are those of data.matchResult (or data.matchedInformation).    *)
(***************************************************************************)
\* Longest model answer of the vision model, in tokens
MaxTextLen == 3

EmptyRaw ==
  [match_score |-> Undef, score |-> Undef, confidence |-> Undef, similarity |-> Undef,
   matchScore |-> Undef, confidenceScore |-> Undef, mr_confidence |-> Undef,
   mr_score |-> Undef, isMatch |-> Undef, match |-> Undef, faceMatched |-> Undef,
   match_band |-> Undef, status |-> Undef, error |-> Undef, message |-> Undef,
   request_id |-> Undef, results |-> 1, aiText |-> << >>]

ScoreVals == {-500, 97, 4900, 5000, 6900, 7000, 8400, 8500, 10000, 12000}
ScoreField == {Undef} \cup {Num(v) : v \in ScoreVals}
OtherScore == {Undef, Num(4900), Num(8500)}
FlagField == {Undef, Bool(TRUE), Bool(FALSE)}

\* Mutant of ScoreBand: the thresholds are exclusive.
ScoreBandExclusive(score) ==
  IF score.t = "num" /\ score.n > 8500 THEN "HIGH"
  ELSE IF score.t = "num" /\ score.n > 7000 THEN "MEDIUM" ELSE "LOW"

\* Threshold cascade shared by the score-banded versions:
\* isHigh ? 'HIGH' : isMedium ? 'MEDIUM' : 'LOW'
ScoreBand(score) ==
  IF GE(score, 85) THEN "HIGH" ELSE IF GE(score, 70) THEN "MEDIUM" ELSE "LOW"

\* isMatch && score >= 70 ? 'VERIFIED' : score >= 50 ? 'REVIEW' : 'FAILED'
ScoreStatus(isMatch, score) ==
  IF Truthy(isMatch) /\ GE(score, 70) THEN "VERIFIED"
  ELSE IF GE(score, 50) THEN "REVIEW" ELSE "FAILED"

ScoreResult(score, isMatch, faceMatched) ==
  [match_score |-> score.n, match_band |-> ScoreBand(score),
   status |-> ScoreStatus(isMatch, score), confidence_level |-> ScoreBand(score),
   face_matched |-> faceMatched]

\* callSpringScanAPI: the result has no face_matched field
NormalizeSpringScanV1(data) ==
  LET score == Or(Or(Or(Or(data.match_score, data.score), data.confidence),
                     data.similarity), Num(0))
      isMatch == Or(Or(data.isMatch, data.match), Bool(GE(score, 70)))
  IN ScoreResult(score, isMatch, Undef)

\* callSpringScanFaceMatch, create person + /v4/faceMatch
NormalizeSpringScanV2(data) ==
  LET score == Or(Or(Or(Or(Or(Or(data.match_score, data.score), data.confidence),
                           data.similarity), data.matchScore), data.confidenceScore),
                  Num(0))
      isMatch == Or(Or(Or(data.isMatch, data.match), data.faceMatched),
                    Bool(GE(score, 70)))
  IN ScoreResult(score, isMatch, isMatch)

\* callSpringScanFaceMatch, create person + selfie + /v4/ocr
NormalizeSpringScanOcr(data) ==
  LET faceMatched == Or(data.faceMatched, Bool(FALSE))
      score == Or(Or(Or(Or(Or(Or(Or(data.mr_confidence, data.mr_score),
                                    data.match_score), data.score), data.confidence),
                        data.matchScore), data.confidenceScore), Num(0))
      isMatch == Or(Or(faceMatched, data.isMatch), Bool(GE(score, 70)))
  IN ScoreResult(score, isMatch, faceMatched)

\* callIdfyFaceMatch, /tasks/sync/face_match
NormalizeIdfySync(data) ==
  LET score == Or(Or(Or(data.match_score, data.confidence), data.score), Num(0))
      faceMatched == Bool(IsTrue(data.match) \/ GE(score, 70))
  IN ScoreResult(score, faceMatched, faceMatched)

\* callIdfyFaceMatch, REST v2 and v3 async: band from the provider's label
NormalizeIdfyBand(data) ==
  LET score == Or(ParseFloat(data.match_score), Num(0))
      matchBand == IF data.match_band.t = "str" /\ ToLowerCase(data.match_band.s) # ""
                     THEN ToLowerCase(data.match_band.s) ELSE "gray"
      faceMatched == matchBand = "green" \/ matchBand = "yellow"
  IN [match_score |-> score.n, match_band |-> ToUpperCase(matchBand),
      status |-> IF matchBand = "green" THEN "VERIFIED"
                 ELSE IF matchBand = "yellow" THEN "REVIEW" ELSE "FAILED",
      confidence_level |-> IF matchBand = "green" THEN "HIGH"
                           ELSE IF matchBand = "yellow" THEN "MEDIUM" ELSE "LOW",
      face_matched |-> Bool(faceMatched)]

\* if (data.error || data.status === 'failure' [|| data.status === 'failed']) throw
IdfyDataError(a, data) ==
  \/ Truthy(data.error)
  \/ data.status.t = "str" /\ data.status.s = "failure"
  \/ a = "idfy_async" /\ data.status.t = "str" /\ data.status.s = "failed"

IdfyDataMessage(prefix, data) ==
  prefix \o (IF Truthy(data.error) THEN data.error.s
             ELSE IF Truthy(data.message) THEN data.message.s ELSE "Unknown error")

(***************************************************************************)
(* parseAIResponse.  The model's answer is a sequence of tokens separated  *)
(* by single blanks: lower-case words, and numbers with or without a       *)
(* trailing "%"; a colon after a word is not told from the blank.          *)
(***************************************************************************)
Word(w) == [w |-> w, num |-> FALSE, n |-> 0, pct |-> FALSE]
Number(n, pct) == [w |-> "", num |-> TRUE, n |-> n, pct |-> pct]

Vocabulary == {Word("match"), Word("yes"), Word("no"), Word("not"), Word("different"),
               Word("confidence"), Word("score"), Word("unclear"),
               Number(15, FALSE), Number(9200, TRUE), Number(6000, FALSE)}

AiTexts == UNION {[1..k -> Vocabulary] : k \in 0..MaxTextLen}

\* lowerText.includes(sub) for a single word
Includes(text, sub) ==
  \E i \in 1..Len(text) :
    \/ text[i].w = sub
    \/ sub = "no" /\ text[i].w = "not"

\* lowerText.includes(a + ' ' + b) for two adjacent words
IncludesPair(text, a, b) ==
  \E i \in 1..(Len(text) - 1) : text[i].w = a /\ text[i + 1].w = b

\* first index matching, or 0
FirstPercent(text) ==
  IF \E i \in 1..Len(text) : text[i].num /\ text[i].pct
    THEN CHOOSE i \in 1..Len(text) :
           /\ text[i].num /\ text[i].pct
           /\ \A j \in 1..(i - 1) : ~(text[j].num /\ text[j].pct)
    ELSE 0

\* first index of a number that follows the keyword, or 0
FirstAfter(text, key) ==
  IF \E i \in 2..Len(text) : text[i].num /\ text[i - 1].w = key
    THEN CHOOSE i \in 2..Len(text) :
           /\ text[i].num /\ text[i - 1].w = key
           /\ \A j \in 2..(i - 1) : ~(text[j].num /\ text[j - 1].w = key)
    ELSE 0

\* Mutant of parseAIResponse: the patterns are tried in the opposite order,
\* so a bare percentage wins over "score" and "score" over "confidence".
parseAIResponsePercentWins(aiText) ==
  IF aiText = << >> THEN [match |-> FALSE, score |-> 0]
  ELSE
    LET match1 == Includes(aiText, "match") /\
                  (Includes(aiText, "yes") \/ Includes(aiText, "true")
                   \/ Includes(aiText, "positive"))
        negative == IncludesPair(aiText, "no", "match")
                    \/ IncludesPair(aiText, "not", "match")
                    \/ Includes(aiText, "different")
        match2 == IF negative THEN FALSE ELSE match1
        c == FirstAfter(aiText, "confidence")
        score1 == IF c # 0 THEN aiText[c].n ELSE 0
        d == FirstAfter(aiText, "score")
        score2 == IF d # 0
                    THEN (IF aiText[d].n <= 100 THEN aiText[d].n * 100 ELSE aiText[d].n)
                    ELSE score1
        p == FirstPercent(aiText)
        score3 == IF p # 0 THEN aiText[p].n ELSE score2
        match3 == IF score3 >= 7000 /\ ~Includes(aiText, "not") THEN TRUE ELSE match2
    IN [match |-> match3, score |-> score3]

\* Mutant of parseAIResponse: a text without a score counts as 50.
parseAIResponseNeutral(aiText) ==
  IF aiText = << >> THEN [match |-> FALSE, score |-> 0]
  ELSE
    LET match1 == Includes(aiText, "match") /\
                  (Includes(aiText, "yes") \/ Includes(aiText, "true")
                   \/ Includes(aiText, "positive"))
        negative == IncludesPair(aiText, "no", "match")
                    \/ IncludesPair(aiText, "not", "match")
                    \/ Includes(aiText, "different")
        match2 == IF negative THEN FALSE ELSE match1
        p == FirstPercent(aiText)
        score1 == IF p # 0 THEN aiText[p].n ELSE 5000
        d == FirstAfter(aiText, "score")
        score2 == IF d # 0
                    THEN (IF aiText[d].n <= 100 THEN aiText[d].n * 100 ELSE aiText[d].n)
                    ELSE score1
        c == FirstAfter(aiText, "confidence")
        score3 == IF c # 0 THEN aiText[c].n ELSE score2
        match3 == IF score3 >= 7000 /\ ~Includes(aiText, "not") THEN TRUE ELSE match2
    IN [match |-> match3, score |-> score3]

parseAIResponse(aiText) ==
  IF aiText = << >> THEN [match |-> FALSE, score |-> 0]
  ELSE
    LET match1 == Includes(aiText, "match") /\
                  (Includes(aiText, "yes") \/ Includes(aiText, "true")
                   \/ Includes(aiText, "positive"))
        negative == IncludesPair(aiText, "no", "match")
                    \/ IncludesPair(aiText, "not", "match")
                    \/ Includes(aiText, "different")
        match2 == IF negative THEN FALSE ELSE match1
        p == FirstPercent(aiText)
        score1 == IF p # 0 THEN aiText[p].n ELSE 0
        d == FirstAfter(aiText, "score")
        score2 == IF d # 0
                    THEN (IF aiText[d].n <= 100 THEN aiText[d].n * 100 ELSE aiText[d].n)
                    ELSE score1
        c == FirstAfter(aiText, "confidence")
        score3 == IF c # 0 THEN aiText[c].n ELSE score2
        match3 == IF score3 >= 7000 /\ ~Includes(aiText, "not") THEN TRUE ELSE match2
    IN [match |-> match3, score |-> score3]

\* callPortkeyFaceMatch
NormalizePortkey(data) ==
  LET matchResult == parseAIResponse(data.aiText)
  IN ScoreResult(Num(matchResult.score), Bool(matchResult.match), Bool(matchResult.match))

(***************************************************************************)
(* What the providers may answer.                                          *)
(***************************************************************************)
BandScores == {Undef, Num(9100), Str("91.0"), Str("99.0"), Str("72.5"), Str("40"),
               Str("0"), Str("n/a")}
BandLabels == {Undef, Str(""), Str("green"), Str("GREEN"), Str("yellow"), Str("red"),
               Str("gray"), Str("blue")}
ProviderErrors == {Undef, Str("face not detected")}
ProviderMessages == {Undef, Str("image unreadable")}

BandRaws(status) ==
  {[EmptyRaw EXCEPT !.status = status, !.match_score = s, !.match_band = b] :
     s \in BandScores, b \in BandLabels}
  \cup
  {[EmptyRaw EXCEPT !.status = status, !.error = e, !.message = m] :
     e \in ProviderErrors, m \in ProviderMessages}

PollStatuses == {Undef, Str("pending"), Str("in_progress"), Str("queued"),
                 Str("completed"), Str("success"), Str("failed"), Str("failure")}

PollDatas ==
  UNION {BandRaws(st) : st \in {Str("completed"), Str("success")}}
  \cup
  {[EmptyRaw EXCEPT !.status = st, !.error = e, !.message = m] :
     st \in {Str("failed"), Str("failure")}, e \in ProviderErrors, m \in ProviderMessages}
  \cup
  {[EmptyRaw EXCEPT !.status = st] :
     st \in {Undef, Str("pending"), Str("in_progress"), Str("queued")}}

RawsFor(a) ==
  CASE a = "springscan_v1" ->
         {[EmptyRaw EXCEPT !.match_score = s, !.score = o, !.isMatch = f, !.match = g] :
            s \in ScoreField, o \in OtherScore, f \in FlagField, g \in FlagField}
    [] a = "springscan_v2" ->
         {[EmptyRaw EXCEPT !.match_score = s, !.confidenceScore = o, !.isMatch = f,
                           !.faceMatched = g] :
            s \in ScoreField, o \in OtherScore, f \in FlagField, g \in FlagField}
    [] a = "springscan_ocr" ->
         {[EmptyRaw EXCEPT !.mr_confidence = s, !.match_score = o, !.faceMatched = f,
                           !.isMatch = g] :
            s \in ScoreField, o \in OtherScore, f \in FlagField, g \in FlagField}
    [] a = "idfy_sync" ->
         {[EmptyRaw EXCEPT !.match_score = s, !.confidence = o, !.match = f] :
            s \in ScoreField, o \in OtherScore, f \in FlagField}
    [] a = "idfy_rest_v2" ->
         {[EmptyRaw EXCEPT !.results = 0]}
         \cup UNION {BandRaws(st) : st \in {Undef, Str("completed"), Str("failure")}}
    [] a = "idfy_async" ->
         {[EmptyRaw EXCEPT !.request_id = Str("req-1")]}
         \cup UNION {BandRaws(st) : st \in {Undef, Str("failed")}}
    [] a = "portkey" ->
         {[EmptyRaw EXCEPT !.aiText = x] : x \in AiTexts}

Normalize(a, data) ==
  CASE a = "springscan_v1" -> NormalizeSpringScanV1(data)
    [] a = "springscan_v2" -> NormalizeSpringScanV2(data)
    [] a = "springscan_ocr" -> NormalizeSpringScanOcr(data)
    [] a = "idfy_sync" -> NormalizeIdfySync(data)
    [] a \in BandAdapters -> NormalizeIdfyBand(data)
    [] a = "portkey" -> NormalizePortkey(data)

(***************************************************************************)
(* The request handler.                                                    *)
(***************************************************************************)
Requests == [filesId : BOOLEAN, filesSelfie : BOOLEAN, bodyId : BOOLEAN,
             bodySelfie : BOOLEAN, docType : BOOLEAN]

NoRequest == [filesId |-> FALSE, filesSelfie |-> FALSE, bodyId |-> FALSE,
              bodySelfie |-> FALSE, docType |-> FALSE]

NoPoll == [outcome |-> NoOutcome, data |-> EmptyRaw]

\* Mutant of HasImages: one image of a pair is enough.
HasImagesEither(r) == (r.filesId \/ r.filesSelfie) \/ (r.bodyId \/ r.bodySelfie)

\* req.files?.idImage && req.files?.selfieImage, else req.body.idImage && req.body.selfieImage
HasImages(r) == (r.filesId /\ r.filesSelfie) \/ (r.bodyId /\ r.bodySelfie)

\* Mutant of MissingDocType: the docType check is left out.
MissingDocTypeUnchecked(a, r) == FALSE

\* if (!docType) return res.status(400)
MissingDocType(a, r) == a \in DocTypeAdapters /\ ~r.docType

\* Mutant of Configured: the credential test is left out.
ConfiguredUnchecked(a, env) == TRUE

\* The credential test at the head of the adapter.  The first SpringScan
\* version falls back to a token written in the source.
Configured(a, env) == a = "springscan_v1" \/ env

MsgNotConfigured(a) ==
  CASE a = "springscan_v1" -> "SpringScan token not configured. Add SVD_TOKEN_KEY to Secrets."
    [] a \in {"springscan_v2", "springscan_ocr"} ->
         "SpringScan token not configured. Add SVD_TOKEN_KEY to .env or Replit Secrets."
    [] a = "portkey" ->
         "Portkey API key not configured. Add PORTKEY_API_KEY to .env or Replit Secrets."
    [] OTHER ->
         "IDfy credentials not configured. Add IDFY_API_KEY and IDFY_ACCOUNT_ID to Replit Secrets."

\* The first provider call of each version
FirstCall(a) ==
  CASE a = "springscan_v1" -> "faceMatch"
    [] a \in {"springscan_v2", "springscan_ocr"} -> "createPerson"
    [] a = "idfy_sync" -> "idfySync"
    [] a = "idfy_rest_v2" -> "idfyV2"
    [] a = "idfy_async" -> "idfyInitial"
    [] a = "portkey" -> "portkey"

\* The images the provider calls of each version carry: the buffers returned
\* by compressImage, or the upload's own base64
Payload(a) == IF a \in CompressingAdapters THEN "compressed" ELSE "original"

\* No request has arrived in the process
NoProcess == [now |-> 0, at |-> <<"none", "none">>, taskId |-> <<0, 0>>]

\* compressImage not called
NoCompress == [at |-> "idle", original |-> 0, quality |-> 0, box |-> 0,
               length |-> 0, used |-> << >>, resolved |-> 0]

Init ==
  /\ adapter \in Adapters
  /\ configured \in BOOLEAN
  /\ req = NoRequest
  /\ pc = "idle"
  /\ compressed = 0
  /\ calls = << >>
  /\ outcomes = << >>
  /\ raw = EmptyRaw
  /\ attempts = 0
  /\ polled = 0
  /\ nonTerminal = TRUE
  /\ lastPoll = NoPoll
  /\ response = NoResponse
  /\ cmp = NoCompress
  /\ proc = NoProcess

Respond(r) == response' = r /\ pc' = "responded"

Issue(call) == calls' = Append(calls, call) /\ pc' = call

\* app.post('/api/face-match'), up to the first await
PostFaceMatch ==
  /\ pc = "idle"
  /\ \E r \in Requests :
       /\ req' = r
       /\ IF ~HasImages(r)
            THEN Respond(BadRequest(MsgImagesRequired)) /\ UNCHANGED calls
          ELSE IF MissingDocType(adapter, r)
            THEN Respond(BadRequest(MsgDocTypeRequired)) /\ UNCHANGED calls
          ELSE IF ~Configured(adapter, configured)
            THEN Respond(Fail(adapter, PlainError(MsgNotConfigured(adapter))))
                 /\ UNCHANGED calls
          ELSE IF adapter \in CompressingAdapters
            THEN pc' = "compress" /\ UNCHANGED <<calls, response>>
          ELSE Issue(FirstCall(adapter)) /\ UNCHANGED response
  /\ UNCHANGED <<cmp, proc, adapter, configured, compressed, outcomes, raw, attempts, polled,
                 nonTerminal, lastPoll>>

\* await compressImage(...): sharp either returns a buffer or rejects
CompressImage ==
  /\ pc = "compress"
  /\ \/ /\ compressed' = compressed + 1
        /\ IF compressed + 1 < 2
             THEN UNCHANGED <<pc, calls, response>>
             ELSE Issue(FirstCall(adapter)) /\ UNCHANGED response
     \/ /\ Respond(HandlerCatch(adapter,
                     PlainError("Input buffer contains unsupported image format")))
        /\ UNCHANGED <<compressed, calls>>
  /\ UNCHANGED <<cmp, proc, adapter, configured, req, outcomes, raw, attempts, polled,
                 nonTerminal, lastPoll>>

\* Mutant of CreatePersonResponse: a rejected creation is tried once more.
CreatePersonResponseRetries ==
  /\ pc = "createPerson"
  /\ \E o \in {OkOutcome} \cup FailOutcomes :
       /\ outcomes' = Append(outcomes, o)
       /\ IF o.kind = "ok"
            THEN Issue(IF adapter = "springscan_ocr" THEN "selfie" ELSE "faceMatch")
                 /\ UNCHANGED response
            ELSE IF Len(calls) < 2
              THEN Issue("createPerson") /\ UNCHANGED response
              ELSE Respond(Fail(adapter, AxiosError(o))) /\ UNCHANGED calls
  /\ UNCHANGED <<cmp, proc, adapter, configured, req, compressed, raw, attempts, polled,
                 nonTerminal, lastPoll>>

\* createSpringScanPerson resolves or rejects
CreatePersonResponse ==
  /\ pc = "createPerson"
  /\ \E o \in {OkOutcome} \cup FailOutcomes :
       /\ outcomes' = Append(outcomes, o)
       /\ IF o.kind = "ok"
            THEN Issue(IF adapter = "springscan_ocr" THEN "selfie" ELSE "faceMatch")
                 /\ UNCHANGED response
            ELSE Respond(Fail(adapter, AxiosError(o))) /\ UNCHANGED calls
  /\ UNCHANGED <<cmp, proc, adapter, configured, req, compressed, raw, attempts, polled,
                 nonTerminal, lastPoll>>

\* Mutant of SelfieResponse: a rejected upload is logged and the flow goes on.
SelfieResponseIgnoresFailure ==
  /\ pc = "selfie"
  /\ \E o \in {OkOutcome} \cup FailOutcomes :
       /\ outcomes' = Append(outcomes, o)
       /\ Issue("ocr") /\ UNCHANGED response
  /\ UNCHANGED <<cmp, proc, adapter, configured, req, compressed, raw, attempts, polled,
                 nonTerminal, lastPoll>>

\* POST /user/person/{personId}/selfie resolves or rejects
SelfieResponse ==
  /\ pc = "selfie"
  /\ \E o \in {OkOutcome} \cup FailOutcomes :
       /\ outcomes' = Append(outcomes, o)
       /\ IF o.kind = "ok"
            THEN Issue("ocr") /\ UNCHANGED response
            ELSE Respond(Fail(adapter, AxiosError(o))) /\ UNCHANGED calls
  /\ UNCHANGED <<cmp, proc, adapter, configured, req, compressed, raw, attempts, polled,
                 nonTerminal, lastPoll>>

\* The parse of a band-labelled IDfy result: throw on error, else normalise
IdfyFinish(a, data) ==
  IF a = "idfy_rest_v2" /\ data.results = 0
    THEN Fail(a, PlainError("IDfy API returned no results"))
  ELSE IF IdfyDataError(a, data)
    THEN Fail(a, PlainError(IdfyDataMessage("IDfy Face Match Error: ", data)))
  ELSE Success(Normalize(a, data))

\* The last call of the one-shot and multi-step versions resolves or rejects
ResultResponse ==
  /\ pc \in {"faceMatch", "ocr", "idfySync", "idfyV2"}
  /\ \/ \E o \in FailOutcomes :
          /\ outcomes' = Append(outcomes, o)
          /\ Respond(Fail(adapter, AxiosError(o)))
          /\ UNCHANGED raw
     \/ \E data \in RawsFor(adapter) :
          /\ outcomes' = Append(outcomes, OkOutcome)
          /\ raw' = data
          /\ Respond(IF adapter = "idfy_rest_v2" THEN IdfyFinish(adapter, data)
                     ELSE Success(Normalize(adapter, data)))
  /\ UNCHANGED <<cmp, proc, adapter, configured, req, compressed, calls, attempts, polled,
                 nonTerminal, lastPoll>>

\* portkey.chat.completions.create resolves or rejects
PortkeyResponse ==
  /\ pc = "portkey"
  /\ \/ \E o \in FailOutcomes :
          /\ outcomes' = Append(outcomes, o)
          /\ Respond(Fail(adapter, PortkeyError(o)))
          /\ UNCHANGED raw
     \/ \E data \in RawsFor(adapter) :
          /\ outcomes' = Append(outcomes, OkOutcome)
          /\ raw' = data
          /\ Respond(Success(Normalize(adapter, data)))
  /\ UNCHANGED <<cmp, proc, adapter, configured, req, compressed, calls, attempts, polled,
                 nonTerminal, lastPoll>>

(***************************************************************************)
(* callIdfyFaceMatch, v3 async: initial call, then the poll loop.          *)
(***************************************************************************)
\* Mutant of LoopContinues: the guard lets one more pass through.
LoopContinuesInclusive(n) == n <= maxAttempts

\* while (attempts < maxAttempts)
LoopContinues(n) == n < maxAttempts

\* if (attempts >= maxAttempts) throw new Error('Timeout ...'), after the loop
TimedOut(n) == n >= maxAttempts

IsPending(p) ==
  p.outcome.kind = "ok" /\ p.data.status.t = "str"
  /\ p.data.status.s \in {"pending", "in_progress"}

\* Mutant of PollStep: a failed task is polled again like a pending one.
PollStepFailedContinues(o, d, n) ==
  IF o.kind = "ok"
    THEN IF d.status.t = "str" /\ d.status.s \in {"completed", "success"} THEN "break"
         ELSE "continue"
    ELSE IF o.kind = "http" /\ o.status = 404
           THEN (IF n = 1 THEN "notfound" ELSE "continue")
           ELSE "rethrow"

\* Mutant of PollStep: a 404 is logged and polled again on every attempt.
PollStepNotFoundContinues(o, d, n) ==
  IF o.kind = "ok"
    THEN IF d.status.t = "str" /\ d.status.s \in {"completed", "success"} THEN "break"
         ELSE IF d.status.t = "str" /\ d.status.s \in {"failed", "failure"} THEN "failed"
         ELSE "continue"
    ELSE IF o.kind = "http" /\ o.status = 404 THEN "continue" ELSE "rethrow"

\* One pass of the loop body after the poll request settled with outcome o
\* and, when it resolved, data d: what the try/catch around it does.
PollStep(o, d, n) ==
  IF o.kind = "ok"
    THEN IF d.status.t = "str" /\ d.status.s \in {"completed", "success"} THEN "break"
         ELSE IF d.status.t = "str" /\ d.status.s \in {"failed", "failure"} THEN "failed"
         ELSE "continue"
    ELSE IF o.kind = "http" /\ o.status = 404
           THEN (IF n = 1 THEN "notfound" ELSE "continue")
           ELSE "rethrow"

\* The code after the loop, with the data it parses
AfterLoop(a, n, data) ==
  IF TimedOut(n) THEN Fail(a, PlainError(MsgTimeout)) ELSE IdfyFinish(a, data)

\* POST /v3/tasks/async/compare/face resolves or rejects
IdfyInitialResponse ==
  /\ pc = "idfyInitial"
  /\ \/ \E o \in FailOutcomes :
          /\ outcomes' = Append(outcomes, o)
          /\ Respond(Fail(adapter, AxiosError(o)))
          /\ UNCHANGED raw
     \/ \E data \in RawsFor(adapter) :
          /\ outcomes' = Append(outcomes, OkOutcome)
          /\ raw' = data
          /\ IF Truthy(data.request_id)
               THEN IF LoopContinues(attempts)
                      THEN pc' = "pollWait" /\ UNCHANGED response
                      ELSE Respond(AfterLoop(adapter, attempts, data))
               ELSE Respond(IdfyFinish(adapter, data))
  /\ UNCHANGED <<cmp, proc, adapter, configured, req, compressed, calls, attempts, polled,
                 nonTerminal, lastPoll>>

\* the 1 second timer fires: attempts++, and the poll request goes out
PollTimer ==
  /\ pc = "pollWait"
  /\ attempts' = attempts + 1
  /\ polled' = polled + 1
  /\ pc' = "poll"
  /\ UNCHANGED <<cmp, proc, adapter, configured, req, compressed, calls, outcomes, raw,
                 nonTerminal, lastPoll, response>>

\* GET /v3/tasks?request_id=... resolves or rejects
PollResponse ==
  /\ pc = "poll"
  /\ \E p \in {[outcome |-> OkOutcome, data |-> d] : d \in PollDatas}
              \cup {[outcome |-> o, data |-> EmptyRaw] : o \in FailOutcomes} :
       LET step == PollStep(p.outcome, p.data, attempts) IN
       /\ lastPoll' = p
       /\ CASE step = "break" ->
                 /\ raw' = p.data
                 /\ Respond(AfterLoop(adapter, attempts, p.data))
                 /\ UNCHANGED nonTerminal
            [] step = "failed" ->
                 /\ Respond(Fail(adapter,
                              PlainError(IdfyDataMessage("IDfy task failed: ", p.data))))
                 /\ UNCHANGED <<raw, nonTerminal>>
            [] step = "notfound" ->
                 /\ Respond(Fail(adapter, PlainError(MsgPollNotFound)))
                 /\ UNCHANGED <<raw, nonTerminal>>
            [] step = "rethrow" ->
                 /\ Respond(Fail(adapter, AxiosError(p.outcome)))
                 /\ UNCHANGED <<raw, nonTerminal>>
            [] step = "continue" ->
                 /\ nonTerminal' = (nonTerminal /\ IsPending(p))
                 /\ IF LoopContinues(attempts)
                      THEN pc' = "pollWait" /\ UNCHANGED response
                      ELSE Respond(AfterLoop(adapter, attempts, raw))
                 /\ UNCHANGED raw
  /\ UNCHANGED <<cmp, proc, adapter, configured, req, compressed, calls, outcomes, attempts, polled>>

Next ==
  \/ PostFaceMatch
  \/ CompressImage
  \/ CreatePersonResponse
  \/ SelfieResponse
  \/ ResultResponse
  \/ PortkeyResponse
  \/ IdfyInitialResponse
  \/ PollTimer
  \/ PollResponse

Spec == Init /\ [][Next]_vars

(***************************************************************************)
(* compressImage, one call of it.  Sizes are byte counts of the buffers;   *)
(* the base64 strings passed in and out grow with them.  What sharp's      *)
(* encoder produces for a given image, box and quality is sharp's affair:  *)
(* each encode resolves with some length, or rejects.                      *)
(*   cmp.at        "idle", "encoding" (awaiting toBuffer), "returned",     *)
(*                 "rejected"                                              *)
(*   cmp.original  buffer.length                                          *)
(*   cmp.quality   the local quality                                       *)
(*   cmp.box       the side of the resize box of the pending encode        *)
(*   cmp.length    compressed.length                                       *)
(*   cmp.used      the quality of every encode issued, in order            *)
(*   cmp.resolved  how many of the encodes issued have resolved            *)
(***************************************************************************)
maxSizeKB == 30

InputSizes == {1024, 30720, 204800, 5242880}
EncodedSizes == {2048, 20480, 30720, 30721, 61440, 262144}

\* Mutant of StillTooLarge: the loop also runs at quality 20.
StillTooLargeInclusive(length, quality) == length > maxSizeKB * 1024 /\ quality >= 20

\* while (compressed.length > maxSizeKB * 1024 && quality > 20)
StillTooLarge(length, quality) == length > maxSizeKB * 1024 /\ quality > 20

\* compressImage is called: quality = 70 and the first encode, in the 800 box
CompressBegin ==
  /\ cmp.at = "idle"
  /\ \E n \in InputSizes :
       cmp' = [at |-> "encoding", original |-> n, quality |-> 70, box |-> 800,
               length |-> 0, used |-> <<70>>, resolved |-> 0]
  /\ UNCHANGED <<handlerVars, proc>>

\* Mutant of SharpResolves: a result still over the budget when the loop
\* ends is an error.
SharpResolvesThrowsOverBudget ==
  /\ cmp.at = "encoding"
  /\ \E n \in EncodedSizes :
       IF StillTooLarge(n, cmp.quality)
         THEN cmp' = [cmp EXCEPT !.length = n, !.quality = cmp.quality - 10,
                                 !.box = 600,
                                 !.used = Append(cmp.used, cmp.quality - 10),
                                 !.resolved = cmp.resolved + 1]
         ELSE cmp' = [cmp EXCEPT !.length = n, !.resolved = cmp.resolved + 1,
                                 !.at = IF n > maxSizeKB * 1024 THEN "rejected"
                                        ELSE "returned"]
  /\ UNCHANGED <<handlerVars, proc>>

\* the pending encode resolves; the loop test; the next encode or the return
SharpResolves ==
  /\ cmp.at = "encoding"
  /\ \E n \in EncodedSizes :
       IF StillTooLarge(n, cmp.quality)
         THEN cmp' = [cmp EXCEPT !.length = n, !.quality = cmp.quality - 10,
                                 !.box = 600,
                                 !.used = Append(cmp.used, cmp.quality - 10),
                                 !.resolved = cmp.resolved + 1]
         ELSE cmp' = [cmp EXCEPT !.length = n, !.resolved = cmp.resolved + 1,
                                 !.at = "returned"]
  /\ UNCHANGED <<handlerVars, proc>>

\* the pending encode rejects (not an image): compressImage throws
SharpRejects ==
  /\ cmp.at = "encoding"
  /\ cmp' = [cmp EXCEPT !.at = "rejected"]
  /\ UNCHANGED <<handlerVars, proc>>

CompressInit ==
  /\ adapter \in CompressingAdapters
  /\ configured = TRUE
  /\ req = NoRequest
  /\ pc = "idle"
  /\ compressed = 0
  /\ calls = << >>
  /\ outcomes = << >>
  /\ raw = EmptyRaw
  /\ attempts = 0
  /\ polled = 0
  /\ nonTerminal = TRUE
  /\ lastPoll = NoPoll
  /\ response = NoResponse
  /\ cmp = NoCompress
  /\ proc = NoProcess

CompressNext ==
  \/ CompressBegin
  \/ SharpResolves
  \/ SharpRejects

CompressSpec == CompressInit /\ [][CompressNext]_vars

\* Every awaited encode settles: sharp resolves or rejects the promise.
CompressFairSpec == CompressSpec /\ WF_vars(CompressNext)

(***************************************************************************)
(* Two requests handled by one process (IDfy v3 async).  Node runs one     *)
(* handler at a time, but a handler gives way at every await, and          *)
(* Date.now() counts whole milliseconds: any number of handler steps fit   *)
(* between two ticks.                                                      *)
(*   proc.now        Date.now(), in milliseconds since the process started *)
(*   proc.at[r]      "none", "compress" (awaiting compressImage), "called" *)
(*                   (task_id made, initial call out)                      *)
(*   proc.taskId[r]  the number in the task_id of the request's call       *)
(***************************************************************************)
MaxClock == 4

\* the clock reaches the next millisecond
ClockTick ==
  /\ proc.now < MaxClock
  /\ proc' = [proc EXCEPT !.now = proc.now + 1]
  /\ UNCHANGED <<handlerVars, cmp>>

\* a request arrives, passes the checks and awaits compressImage
RequestArrives ==
  /\ \E r \in 1..2 :
       /\ proc.at[r] = "none"
       /\ proc' = [proc EXCEPT !.at[r] = "compress"]
  /\ UNCHANGED <<handlerVars, cmp>>

\* compression is over: taskId = `face_compare_${Date.now()}`, and the call
TaskIssued ==
  /\ \E r \in 1..2 :
       /\ proc.at[r] = "compress"
       /\ proc' = [proc EXCEPT !.at[r] = "called", !.taskId[r] = proc.now]
  /\ UNCHANGED <<handlerVars, cmp>>

ProcessInit ==
  /\ adapter = "idfy_async"
  /\ configured = TRUE
  /\ req = NoRequest
  /\ pc = "idle"
  /\ compressed = 0
  /\ calls = << >>
  /\ outcomes = << >>
  /\ raw = EmptyRaw
  /\ attempts = 0
  /\ polled = 0
  /\ nonTerminal = TRUE
  /\ lastPoll = NoPoll
  /\ response = NoResponse
  /\ cmp = NoCompress
  /\ proc = NoProcess

ProcessNext ==
  \/ ClockTick
  \/ RequestArrives
  \/ TaskIssued

ProcessSpec == ProcessInit /\ [][ProcessNext]_vars

(***************************************************************************)
(* callPortkeyFaceMatch on longer answers of the model: the request is at  *)
(* the await of portkey.chat.completions.create, which resolves.           *)
(***************************************************************************)
MaxParseLen == 4

ParseVocabulary == Vocabulary \cup {Number(100, FALSE), Number(8000, TRUE)}

ParseTexts == UNION {[1..k -> ParseVocabulary] : k \in 0..MaxParseLen}

ParseInit ==
  /\ adapter = "portkey"
  /\ configured = TRUE
  /\ req = [NoRequest EXCEPT !.filesId = TRUE, !.filesSelfie = TRUE]
  /\ pc = "portkey"
  /\ compressed = 0
  /\ calls = <<"portkey">>
  /\ outcomes = << >>
  /\ raw = EmptyRaw
  /\ attempts = 0
  /\ polled = 0
  /\ nonTerminal = TRUE
  /\ lastPoll = NoPoll
  /\ response = NoResponse
  /\ cmp = NoCompress
  /\ proc = NoProcess

\* portkey.chat.completions.create resolves with the text; the text is parsed
ParseResponse ==
  /\ pc = "portkey"
  /\ \E x \in ParseTexts :
       LET data == [EmptyRaw EXCEPT !.aiText = x]
       IN /\ outcomes' = Append(outcomes, OkOutcome)
          /\ raw' = data
          /\ Respond(Success(Normalize(adapter, data)))
  /\ UNCHANGED <<cmp, proc, adapter, configured, req, compressed, calls, attempts, polled,
                 nonTerminal, lastPoll>>

ParseNext == ParseResponse

ParseSpec == ParseInit /\ [][ParseNext]_vars

(***************************************************************************)
(* Claims.                                                                 *)
(***************************************************************************)
PollOk(statuses) ==
  lastPoll.outcome.kind = "ok" /\ lastPoll.data.status.t = "str"
  /\ lastPoll.data.status.s \in statuses

\* C1 (as claimed): in the v3 async adapter, when the polls before the last
\* all returned pending or in_progress and the last poll, at any attempt
\* 1..30, returns completed or success (with no error field), polling stops
\* there and the adapter returns a successful result.
C1_PollUntilCompleted ==
  (adapter = "idfy_async" /\ nonTerminal /\ PollOk({"completed", "success"})
   /\ ~Truthy(lastPoll.data.error) /\ polled \in 1..maxAttempts)
  => (pc = "responded" /\ response.success /\ response.status = 200)

\* C2: when every poll returns pending or in_progress, exactly 30 polls are
\* issued, never a 31st, and the request ends with the timeout error
\* instead of a result.
C2_PollTimeout ==
  /\ polled <= maxAttempts
  /\ (adapter = "idfy_async" /\ pc = "responded" /\ polled >= 1 /\ nonTerminal
      /\ PollOk({"pending", "in_progress"}))
     => (polled = maxAttempts /\ ~response.success /\ response.error = MsgTimeout
         /\ response.data = NoData)

C2_Witness ==
  /\ adapter = "idfy_async" /\ pc = "responded" /\ polled = maxAttempts /\ nonTerminal
  /\ PollOk({"pending", "in_progress"})
  /\ response.error = MsgTimeout

\* C3: when a poll returns failed or failure, the request has ended: no
\* further poll is issued, no successful result is returned, and the error
\* carries the error (else the message) of that poll response.
C3_PollFailedStops ==
  (adapter = "idfy_async" /\ PollOk({"failed", "failure"}))
  => /\ pc = "responded"
     /\ polled = attempts
     /\ ~response.success
     /\ response.data = NoData
     /\ response.error =
          "IDfy task failed: " \o
            (IF Truthy(lastPoll.data.error) THEN lastPoll.data.error.s
             ELSE IF Truthy(lastPoll.data.message) THEN lastPoll.data.message.s
             ELSE "Unknown error")

C3_Witness ==
  /\ adapter = "idfy_async" /\ PollOk({"failed"}) /\ polled = 3
  /\ lastPoll.data.error = Str("face not detected")
  /\ response.error = "IDfy task failed: face not detected"

\* C4: in the create person -> selfie -> OCR flow, when the selfie upload
\* fails with HTTP 500 the OCR call is never issued and the response is
\* HTTP 500, success=false, with the selfie step's body under detail.
C4_SelfieFailureStops ==
  (adapter = "springscan_ocr" /\ Len(outcomes) >= 2
   /\ outcomes[2].kind = "http" /\ outcomes[2].status = 500)
  => /\ pc = "responded"
     /\ calls = <<"createPerson", "selfie">>
     /\ response.status = 500
     /\ ~response.success
     /\ response.detail = outcomes[2].body

C4_Witness ==
  /\ adapter = "springscan_ocr" /\ pc = "responded" /\ Len(outcomes) = 2
  /\ outcomes[1].kind = "ok"
  /\ outcomes[2] = [kind |-> "http", status |-> 500,
                    body |-> Body("object", "", "upstream failure")]
  /\ response.status = 500

\* C5 (as claimed): whenever a provider call failed with an upstream HTTP
\* status, the response has exactly that status, success=false, and the
\* upstream body under detail.
C5_UpstreamStatusEchoed ==
  (pc = "responded" /\ Len(outcomes) >= 1 /\ outcomes[Len(outcomes)].kind = "http")
  => /\ response.status = outcomes[Len(outcomes)].status
     /\ ~response.success
     /\ response.detail = outcomes[Len(outcomes)].body

ImageAbsent(r) == ~(r.filesId \/ r.bodyId) \/ ~(r.filesSelfie \/ r.bodySelfie)

\* C6: a request in which idImage or selfieImage is absent from both the
\* multipart form and the JSON body is answered 400 with the missing-image
\* error, and nothing is compressed and no provider is called for it.
C6_MissingImageRejected ==
  (pc # "idle" /\ ImageAbsent(req))
  => /\ pc = "responded"
     /\ response = BadRequest(MsgImagesRequired)
     /\ compressed = 0 /\ calls = << >> /\ polled = 0

C6_Witness ==
  /\ pc = "responded" /\ req.bodyId /\ ~req.bodySelfie /\ ~req.filesSelfie
  /\ response.status = 400 /\ response.error = MsgImagesRequired

\* C7: with an IDfy adapter, a request without docType is answered 400,
\* success=false, before any compression or provider call; with both images
\* the error is the docType error, and with an image absent too it is the
\* missing-image error (the image check comes first).
C7_DocTypeRequired ==
  (adapter \in DocTypeAdapters /\ pc # "idle" /\ ~req.docType)
  => /\ pc = "responded"
     /\ response.status = 400 /\ ~response.success
     /\ compressed = 0 /\ calls = << >> /\ polled = 0
     /\ ((req.filesId /\ req.filesSelfie) \/ (req.bodyId /\ req.bodySelfie))
          => response.error = MsgDocTypeRequired
     /\ ImageAbsent(req) => response.error = MsgImagesRequired

C7_Witness ==
  /\ adapter = "idfy_async" /\ pc = "responded" /\ configured
  /\ req.filesId /\ req.filesSelfie /\ ~req.docType
  /\ response = BadRequest(MsgDocTypeRequired)

\* C8 (as claimed): with no provider credentials configured, a request with
\* both images (and a docType) gets a successful simulated result and no
\* provider call is made.
C8_DemoModeSimulates ==
  (~configured /\ pc # "idle" /\ req.docType
   /\ ((req.filesId /\ req.filesSelfie) \/ (req.bodyId /\ req.bodySelfie)))
  => /\ calls = << >>
     /\ pc = "responded" => (response.success /\ response.status = 200)

ThresholdBand(s) == IF s >= 8500 THEN "HIGH" ELSE IF s >= 7000 THEN "MEDIUM" ELSE "LOW"

\* C9 (as claimed): every successful result for which the provider
\* declared no band has match_band and confidence_level both equal to HIGH
\* for s >= 85, MEDIUM for 70 <= s < 85, LOW for s < 70.
C9_ThresholdBands ==
  (pc = "responded" /\ response.success /\ raw.match_band = Undef)
  => /\ response.data.match_band = ThresholdBand(response.data.match_score)
     /\ response.data.confidence_level = ThresholdBand(response.data.match_score)

\* C9 (amended): that holds for the adapters that band by score (the
\* SpringScan versions, IDfy sync, Portkey); the band-labelled IDfy adapters
\* (REST v2, v3 async) give match_band GRAY and confidence_level LOW when
\* the provider declared no band, whatever the score.
C9_ThresholdBandsByAdapter ==
  (pc = "responded" /\ response.success /\ raw.match_band = Undef)
  => IF adapter \in BandAdapters
       THEN response.data.match_band = "GRAY" /\ response.data.confidence_level = "LOW"
       ELSE /\ response.data.match_band = ThresholdBand(response.data.match_score)
            /\ response.data.confidence_level = ThresholdBand(response.data.match_score)

C9_Witness ==
  /\ pc = "responded" /\ response.success /\ adapter = "springscan_ocr"
  /\ raw.match_band = Undef /\ raw.mr_confidence = Num(8500)
  /\ response.data.match_score = 8500
  /\ response.data.match_band = "HIGH" /\ response.data.confidence_level = "HIGH"

\* The provider's (or the parser's) match flag: "true", "false" or "unspecified"
MatchFlag(a, data) ==
  IF a = "portkey"
    THEN (IF parseAIResponse(data.aiText).match THEN "true" ELSE "false")
  ELSE IF a \in BandAdapters THEN "unspecified"
  ELSE IF \E f \in {data.isMatch, data.match, data.faceMatched} : f = Bool(TRUE)
    THEN "true"
  ELSE IF \E f \in {data.isMatch, data.match, data.faceMatched} : f = Bool(FALSE)
    THEN "false"
  ELSE "unspecified"

\* C10 (as claimed): in every successful result with score s and match flag
\* m, status is VERIFIED exactly when m is true or unspecified and s >= 70,
\* REVIEW exactly when 50 <= s < 70, and FAILED otherwise, so also when m is
\* explicitly false and s >= 70.
C10_StatusDerivation ==
  (pc = "responded" /\ response.success)
  => LET s == response.data.match_score
         m == MatchFlag(adapter, raw)
     IN response.data.status =
          (IF m # "false" /\ s >= 7000 THEN "VERIFIED"
           ELSE IF s >= 5000 /\ s < 7000 THEN "REVIEW" ELSE "FAILED")

\* C11 (as claimed): in every successful result with score s, face_matched
\* is the provider's explicit boolean when it supplied one, true or false,
\* and is (s >= 70) when it supplied none.
C11_FaceMatched ==
  (pc = "responded" /\ response.success /\ adapter # "springscan_v1")
  => LET s == response.data.match_score
         m == MatchFlag(adapter, raw)
     IN response.data.face_matched =
          (IF m = "true" THEN Bool(TRUE)
           ELSE IF m = "false" THEN Bool(FALSE) ELSE Bool(s >= 7000))

\* C12 (as claimed): a raw result {match_score: "91.0", match_band: "green"}
\* of a band-labelled adapter is returned with match_score 91, match_band
\* HIGH, status VERIFIED, confidence_level HIGH and face_matched true.
C12_GreenIsHigh ==
  (pc = "responded" /\ response.success /\ adapter \in BandAdapters
   /\ raw.match_score = Str("91.0") /\ raw.match_band = Str("green"))
  => response.data = [match_score |-> 9100, match_band |-> "HIGH",
                      status |-> "VERIFIED", confidence_level |-> "HIGH",
                      face_matched |-> Bool(TRUE)]

\* C13 (as claimed): every successful result has match_band among HIGH,
\* MEDIUM, LOW, GRAY, status among VERIFIED, REVIEW, FAILED and
\* confidence_level among HIGH, MEDIUM, LOW.
C13_FieldRanges ==
  (pc = "responded" /\ response.success)
  => /\ response.data.match_band \in {"HIGH", "MEDIUM", "LOW", "GRAY"}
     /\ response.data.status \in {"VERIFIED", "REVIEW", "FAILED"}
     /\ response.data.confidence_level \in {"HIGH", "MEDIUM", "LOW"}

\* C14 (as claimed): the match_score of every successful result lies between
\* 0 and 100, whatever score the provider or the parser gave.
C14_ScoreRange ==
  (pc = "responded" /\ response.success)
  => response.data.match_score >= 0 /\ response.data.match_score <= 10000

\* C15 (as claimed): the parser's score is the number of the first
\* "confidence: N" token when the text has one, whatever "score:" or "%"
\* tokens it also has; otherwise the number of the first "score: N" token,
\* times 100 when N <= 1, whatever "%" tokens it has; otherwise the first
\* bare "N%".  "Match: Yes, Confidence: 92%" gives 92 and "No match found,
\* score: 0.15" gives 15.
C15_ParserPriority ==
  (adapter = "portkey" /\ pc = "responded" /\ response.success)
  => LET text == raw.aiText
         s == response.data.match_score
         conf == {i \in 2..Len(text) : text[i].num /\ text[i - 1] = Word("confidence")}
         scor == {i \in 2..Len(text) : text[i].num /\ text[i - 1] = Word("score")}
         perc == {i \in 1..Len(text) : text[i].num /\ text[i].pct}
         First(S) == CHOOSE i \in S : \A j \in S : i <= j
     IN /\ conf # {} => s = text[First(conf)].n
        /\ (conf = {} /\ scor # {})
           => s = (IF text[First(scor)].n <= 100 THEN text[First(scor)].n * 100
                   ELSE text[First(scor)].n)
        /\ (conf = {} /\ scor = {} /\ perc # {}) => s = text[First(perc)].n
        /\ text = <<Word("match"), Word("yes"), Word("confidence"), Number(9200, TRUE)>>
           => s = 9200
        /\ text = <<Word("no"), Word("match"), Word("score"), Number(15, FALSE)>>
           => s = 1500

\* "score: 92% confidence: 60" matches all three patterns: confidence wins
C15_Witness ==
  /\ adapter = "portkey" /\ pc = "responded" /\ response.success
  /\ raw.aiText = <<Word("score"), Number(9200, TRUE),
                    Word("confidence"), Number(6000, FALSE)>>
  /\ response.data.match_score = 6000

\* A text with no affirmative cue ("match" with "yes", "true" or "positive")
\* and no score token ("N%", "score N", "confidence N")
Unparsed(text) ==
  /\ ~(\E i \in 1..Len(text) : text[i] = Word("match")
       /\ \E j \in 1..Len(text) : text[j] \in {Word("yes"), Word("true"), Word("positive")})
  /\ ~(\E i \in 1..Len(text) : text[i].num /\ text[i].pct)
  /\ ~(\E i \in 2..Len(text) :
         text[i].num /\ text[i - 1] \in {Word("score"), Word("confidence")})

\* C16 (as claimed): an empty text, or one with no match cue and no score
\* token such as "unclear", parses to match false and score 0, and the
\* request completes with success true, status FAILED, match_band LOW and
\* face_matched false; no error is raised.
C16_UnparsedFails ==
  (adapter = "portkey" /\ pc = "responded" /\ outcomes = <<OkOutcome>>
   /\ Unparsed(raw.aiText))
  => /\ parseAIResponse(raw.aiText) = [match |-> FALSE, score |-> 0]
     /\ response.status = 200 /\ response.success
     /\ response.data.match_score = 0
     /\ response.data.status = "FAILED"
     /\ response.data.match_band = "LOW"
     /\ response.data.face_matched = Bool(FALSE)

C16_Witness ==
  /\ adapter = "portkey" /\ pc = "responded" /\ outcomes = <<OkOutcome>>
  /\ raw.aiText = <<Word("unclear")>>
  /\ response.success /\ response.data.status = "FAILED"

\* C17 (as claimed): the qualities compressImage encodes with are among 70,
\* 60, 50, 40, 30, 20; the first is 70, each later one is 10 below the one
\* before, and none is below 20.
C17_QualitySteps ==
  /\ \A i \in 1..Len(cmp.used) : cmp.used[i] \in {70, 60, 50, 40, 30, 20}
  /\ cmp.used # << >> => cmp.used[1] = 70
  /\ \A i \in 2..Len(cmp.used) : cmp.used[i] = cmp.used[i - 1] - 10
  /\ cmp.at # "idle" => cmp.quality = cmp.used[Len(cmp.used)]

\* every encode up to quality 20 was over the budget
C17_Witness ==
  /\ cmp.at = "returned"
  /\ cmp.used = <<70, 60, 50, 40, 30, 20>>
  /\ cmp.length > maxSizeKB * 1024

\* C18 (as claimed): what compressImage returns is never larger, in bytes,
\* than what it was given.
C18_NeverInflates ==
  cmp.at = "returned" => cmp.length <= cmp.original

\* C20 (as claimed): any non-2xx HTTP response to a status poll, on any
\* attempt, ends the adapter with an error; no further poll follows.
C20_PollErrorStops ==
  (adapter = "idfy_async" /\ lastPoll.outcome.kind = "http")
  => pc = "responded" /\ ~response.success

\* C21 (as claimed): in the v3 async adapter an HTTP 404 on the first poll
\* ends the request at once with the "poll endpoint not found" error:
\* exactly one poll was issued and no result is returned.
C21_FirstPoll404 ==
  (adapter = "idfy_async" /\ polled = 1 /\ lastPoll.outcome.kind = "http"
   /\ lastPoll.outcome.status = 404)
  => /\ pc = "responded" /\ ~response.success
     /\ response.error = MsgPollNotFound
     /\ response.data = NoData
     /\ attempts = 1

C21_Witness ==
  /\ adapter = "idfy_async" /\ polled = 1 /\ lastPoll.outcome.kind = "http"
  /\ lastPoll.outcome.status = 404
  /\ pc = "responded" /\ response.error = MsgPollNotFound

\* The provider calls of the multi-step SpringScan flow, in order
MultiStepCalls == <<"createPerson", "selfie", "ocr">>

\* C22 (as claimed): in the multi-step SpringScan adapter the calls of one
\* request are a prefix of create person, upload selfie, submit document,
\* each issued at most once; a call is issued only after every earlier
\* call returned success; the first failing call ends the request with
\* that call's error; no other (rollback) call is ever made.
C22_MultiStepOrder ==
  adapter = "springscan_ocr"
  => /\ Len(calls) <= Len(MultiStepCalls)
     /\ \A i \in 1..Len(calls) : calls[i] = MultiStepCalls[i]
     /\ Len(outcomes) <= Len(calls)
     /\ \A i \in 1..Len(outcomes) :
          \/ outcomes[i].kind = "ok"
          \/ /\ i = Len(calls) /\ i = Len(outcomes)
             /\ pc = "responded" /\ ~response.success
             /\ response = HandlerCatchStatus(AxiosError(outcomes[i]))
     /\ \A i \in 2..Len(calls) : outcomes[i - 1].kind = "ok"

\* the upload of the selfie is rejected after the person was created
C22_Witness ==
  /\ adapter = "springscan_ocr" /\ pc = "responded" /\ ~response.success
  /\ calls = <<"createPerson", "selfie">>
  /\ Len(outcomes) = 2 /\ outcomes[1].kind = "ok" /\ outcomes[2].kind = "http"
  /\ response.status = outcomes[2].status

\* C23 (as claimed): for every adapter, when a provider call has been
\* issued both images have been compressed, and the images the calls carry
\* are the compressed ones.
C23_CompressBeforeCall ==
  calls # << >> => compressed = 2 /\ Payload(adapter) = "compressed"

\* The request passed the handler's input checks
ValidInput == HasImages(req) /\ ~MissingDocType(adapter, req)

\* C24 (as claimed): when the compression of an image fails, the request is
\* answered with HTTP 400 and success false, and no provider call is made.
\* (A compressing version that answered a valid, configured request without
\* any provider call did so because compressImage threw.)
C24_CompressFailureIs400 ==
  (pc = "responded" /\ adapter \in CompressingAdapters /\ ValidInput
   /\ Configured(adapter, configured) /\ calls = << >>)
  => response.status = 400 /\ ~response.success

NegativeCue(text) ==
  \/ \E i \in 1..(Len(text) - 1) :
       text[i] \in {Word("no"), Word("not")} /\ text[i + 1] = Word("match")
  \/ \E i \in 1..Len(text) : text[i] = Word("different")

\* The text has an affirmative cue: "match" together with "yes", "true" or "positive"
AffirmativeCue(text) ==
  /\ \E i \in 1..Len(text) : text[i] = Word("match")
  /\ \E j \in 1..Len(text) : text[j] \in {Word("yes"), Word("true"), Word("positive")}

\* C26 (as claimed): whenever the text has a negative cue the parsed match
\* is false, whatever score was extracted; and a match that no affirmative
\* cue supports comes from a score >= 70 in a text without negation.
C26_NegativeCueWins ==
  (adapter = "portkey" /\ pc = "responded" /\ outcomes = <<OkOutcome>>)
  => LET text == raw.aiText
         matched == response.data.face_matched = Bool(TRUE)
     IN /\ NegativeCue(text) => ~matched
        /\ (matched /\ ~AffirmativeCue(text))
           => /\ response.data.match_score >= 7000
              /\ ~NegativeCue(text)
              /\ ~(\E i \in 1..Len(text) : text[i] = Word("not"))

\* C27 (as claimed): in every adapter but the vision one, a 2xx answer that
\* carries no recognised score, band, flag or result field (for the v3
\* async adapter also: no request_id) ends the request with an error,
\* never with success true.
C27_UnexpectedShapeFails ==
  (pc = "responded" /\ adapter # "portkey" /\ outcomes # << >>
   /\ outcomes[Len(outcomes)].kind = "ok" /\ raw = EmptyRaw)
  => ~response.success

\* The provider's band is absent or is not one of its known labels
UnknownBand(band) ==
  \/ band.t # "str"
  \/ ToLowerCase(band.s) \notin {"green", "yellow", "red", "gray"}

\* C28 (as claimed): a successful result of a band-labelled adapter whose
\* provider gave no band, or a label that is not a known one, has
\* match_band GRAY, confidence_level LOW, status FAILED and face_matched
\* false.
C28_UnknownBandIsGray ==
  (pc = "responded" /\ response.success /\ adapter \in BandAdapters
   /\ UnknownBand(raw.match_band))
  => /\ response.data.match_band = "GRAY"
     /\ response.data.confidence_level = "LOW"
     /\ response.data.status = "FAILED"
     /\ response.data.face_matched = Bool(FALSE)

\* The call of compressImage has ended, by return or by throw
CompressEnded == cmp.at \in {"returned", "rejected"}

\* At most six encodes, the first in the 800 box and the others in the 600
\* box; a throw is the rejection of the pending encode, never a reaction to
\* a resolved one; the return gives the last encode, over the budget only
\* at quality 20.
CompressBounded ==
  /\ Len(cmp.used) <= 6
  /\ cmp.at = "encoding"
     => /\ cmp.resolved = Len(cmp.used) - 1
        /\ cmp.box = (IF Len(cmp.used) = 1 THEN 800 ELSE 600)
  /\ cmp.at = "rejected" => cmp.resolved = Len(cmp.used) - 1
  /\ cmp.at = "returned"
     => /\ cmp.resolved = Len(cmp.used)
        /\ cmp.quality = cmp.used[Len(cmp.used)]
        /\ cmp.length \in EncodedSizes
        /\ cmp.length > maxSizeKB * 1024 => cmp.quality = 20

\* C29 (as claimed): compressImage ends after at most six encodes (one at
\* quality 70 in the 800x800 box, then at most five in the 600x600 box); it
\* never throws because the budget is exceeded; it returns the last encode,
\* and one over the budget only when the quality has reached 20.
C29_CompressTerminates == []CompressBounded /\ <>CompressEnded

\* the sixth encode is still twice the budget and is returned
C29_Witness ==
  /\ cmp.at = "returned" /\ cmp.resolved = 6 /\ cmp.quality = 20 /\ cmp.box = 600
  /\ cmp.length = 61440

\* C30 (as claimed): two requests handled by the same process send distinct
\* task_id values to the provider, also when they start within the same
\* millisecond.
C30_DistinctTaskIds ==
  (proc.at[1] = "called" /\ proc.at[2] = "called")
  => proc.taskId[1] # proc.taskId[2]

====
